---- MODULE Spec2Model ----
(***************************************************************************)
(* Model of the multithreaded crate: ThreadPool (thread_pool.rs) and       *)
(* Worker (worker.rs).  One owner thread constructs the pool, submits jobs *)
(* with execute and drops the pool; every worker owns one thread running   *)
(* the receive loop of Worker::new.  The worker unit tests use a Worker    *)
(* directly on a channel of their own; that use is the "direct" owner.     *)
(***************************************************************************)
EXTENDS Integers, Sequences, FiniteSets, TLC

\* ------------------------------------------------------------- bounds
\* Largest size passed to ThreadPool::new.
MaxSize == 3
\* Number of jobs accepted by the channel in one behaviour.
MaxJobs == 3
\* Largest id passed to Worker::new by a direct caller.
MaxDirectId == 1

\* ------------------------------------------------------------- values
\* Option::None of Worker.thread, and "no handle held" for the joiner.
NoThread == -1
\* The receiver mutex is free.
NoOne == -1
\* The worker is not running a job.
NoJob == 0

\* Thread slots: the k-th thread spawned is slot k-1.
Slots == 0 .. (MaxSize - 1)
JobIds == 1 .. MaxJobs

VARIABLES
    mainPc,      \* position of the owner thread
    channel,     \* TRUE once mpsc::channel() has been called
    sender,      \* "Some" / "None": ThreadPool.sender (or the direct caller's tx)
    workers,     \* ThreadPool.workers: sequence of [id, thread]
    drain,       \* the remainder of self.workers.drain(..) in drop
    joining,     \* the JoinHandle the owner holds (a slot) or NoThread
    queue,       \* the channel's buffer: sequence of job ids
    lock,        \* holder of the Mutex around the receiver, or NoOne
    poisoned,    \* the Mutex's poison flag
    tpc,         \* per slot: position of the worker thread
    cur,         \* per slot: the job the thread is running, or NoJob
    nextJob,     \* id of the next job to be accepted
    panicJobs,   \* the accepted jobs whose body panics
    deqOrder,    \* job ids in the order recv returned them
    runCount,    \* per job: how many times its body was started
    completed,   \* jobs whose body returned
    counter,     \* the shared counter every non-panicking job adds 1 to
    execResult,  \* outcome of the owner's last execute / send call
    takeCount    \* per slot: how many times take_thread returned its handle

vars == <<mainPc, channel, sender, workers, drain, joining, queue, lock,
          poisoned, tpc, cur, nextJob, panicJobs, deqOrder, runCount,
          completed, counter, execResult, takeCount>>

\* ------------------------------------------------------------- helpers
\* A worker thread that has been spawned and has not ended.
Alive(t) == tpc[t] \in {"lock", "recv", "exec"}

\* The thread has ended, normally or by a panic: join returns.
Finished(t) == tpc[t] \in {"exited", "panicked"}

\* The owner positions in which a direct caller of Worker (the worker
\* tests) is running; it keeps its own Arc of the receiver in scope.
DirectPcs == {"direct"}

\* Some Arc<Mutex<Receiver>> still exists after the thread `t` drops its
\* clone: another live worker thread holds one, or the direct caller does.
ReceiverHeldWithout(t) ==
    \/ mainPc \in DirectPcs
    \/ \E u \in Slots \ {t} : Alive(u)

\* Mutant of ReceiverAlive: the pool keeps an Arc of the receiver of its
\* own, so the channel has a receiver for as long as the pool exists.
ReceiverAliveInPool ==
    \/ mainPc \in DirectPcs
    \/ channel

\* Some Arc<Mutex<Receiver>> exists: the channel has a receiver.
ReceiverAlive ==
    \/ mainPc \in DirectPcs
    \/ \E u \in Slots : Alive(u)

\* Mutant of GetId: the accessor reads the thread slot.
GetIdOfThread(w) == w.thread

\* Worker::get_id
GetId(w) == w.id

\* Mutant of TakeThread: the handle is handed out and the slot keeps it.
TakeThreadKeeps(w) ==
    [ok     |-> w.thread # NoThread,
     handle |-> w.thread,
     worker |-> w]

\* Worker::take_thread: self.thread.take().unwrap().  ok = FALSE is the
\* panic of unwrap on None.
TakeThread(w) ==
    [ok     |-> w.thread # NoThread,
     handle |-> w.thread,
     worker |-> [w EXCEPT !.thread = NoThread]]

\* Worker::new's return value for the thread spawned in slot `slot`.
WorkerNew(id, slot) == [id |-> id, thread |-> slot]

\* Mutant of NewWorkers: the loop stops one worker short.
NewWorkersShort(size) == [i \in 1 .. (size - 1) |-> WorkerNew(i - 1, i - 1)]

\* The for loop of ThreadPool::new: ids 0..size, pushed in order.
NewWorkers(size) == [i \in 1 .. size |-> WorkerNew(i - 1, i - 1)]

\* thread::spawn for every worker of `ws`: the thread starts at the top of
\* its loop, about to lock the receiver.
Spawned(ws) ==
    [t \in Slots |-> IF \E i \in 1 .. Len(ws) : ws[i].thread = t
                     THEN "lock" ELSE "unspawned"]

Init ==
    /\ mainPc = "init"
    /\ channel = FALSE
    /\ sender = "None"
    /\ workers = <<>>
    /\ drain = <<>>
    /\ joining = NoThread
    /\ queue = <<>>
    /\ lock = NoOne
    /\ poisoned = FALSE
    /\ tpc = [t \in Slots |-> "unspawned"]
    /\ cur = [t \in Slots |-> NoJob]
    /\ nextJob = 1
    /\ panicJobs = {}
    /\ deqOrder = <<>>
    /\ runCount = [j \in JobIds |-> 0]
    /\ completed = {}
    /\ counter = 0
    /\ execResult = "none"
    /\ takeCount = [t \in Slots |-> 0]

\* ------------------------------------------------------------- ThreadPool::new
\* assert!(size > 0) fails: nothing is created.
NewPanics(size) ==
    /\ mainPc = "init"
    /\ size = 0
    /\ mainPc' = "new_panicked"
    /\ UNCHANGED <<channel, sender, workers, drain, joining, queue, lock,
                   poisoned, tpc, cur, nextJob, panicJobs, deqOrder,
                   runCount, completed, counter, execResult,
                   takeCount>>

\* size > 0: the channel, the shared receiver and `size` workers.
NewOk(size) ==
    /\ mainPc = "init"
    /\ size > 0
    /\ channel' = TRUE
    /\ workers' = NewWorkers(size)
    /\ tpc' = Spawned(NewWorkers(size))
    /\ sender' = "Some"
    /\ mainPc' = "running"
    /\ UNCHANGED <<drain, joining, queue, lock, poisoned, cur, nextJob,
                   panicJobs, deqOrder, runCount, completed, counter,
                   execResult,
                   takeCount>>

New(size) == NewPanics(size) \/ NewOk(size)

\* ------------------------------------------------------------- the channel
\* Mutant of SendResult: the channel holds one job at most and refuses
\* another while it is full.
SendResultBounded ==
    IF ReceiverAlive /\ Len(queue) < 1 THEN "Ok" ELSE "Err"

\* mpsc::Sender::send: Ok while a receiver exists, Err once the receiver
\* has been dropped.
SendResult == IF ReceiverAlive THEN "Ok" ELSE "Err"

\* Mutant of Enqueue: the job is put at the front of the buffer.
EnqueueFront(q, job) == <<job>> \o q

\* The buffer after send(job) returned Ok.
Enqueue(q, job) == Append(q, job)

\* Mutant of RecvResult: a closed channel is reported at once, whatever is
\* still buffered.
RecvResultHalts(q, s) ==
    IF s = "None" THEN "Err"
    ELSE IF q # <<>> THEN "Ok"
    ELSE "Block"

\* mpsc::Receiver::recv on buffer `q` with the sending side `s`:
\* a buffered job is returned even when every sender is gone; Err only
\* when the buffer is empty and no sender is left; otherwise it blocks.
RecvResult(q, s) ==
    IF q # <<>> THEN "Ok"
    ELSE IF s = "None" THEN "Err"
    ELSE "Block"

\* Mutant of Dequeued: the job is read and left in the buffer.
DequeuedPeek(q) == q

\* The buffer after recv returned its first job.
Dequeued(q) == Tail(q)

\* The buffer once thread `t` has dropped its Arc of the receiver: the
\* last Arc drops the receiver and with it every job still buffered.
QueueAfterThreadEnd(t) == IF ReceiverHeldWithout(t) THEN queue ELSE <<>>

\* ------------------------------------------------------------- ThreadPool::execute
\* The pool value exists: new has returned and drop has not finished.
\* execute takes &self and is modelled as callable in every such state,
\* also once drop has emptied the sender slot: that is the None arm of
\* self.sender.as_ref().unwrap().
PoolExists == mainPc \in {"running", "drain", "join"}

\* self.sender.as_ref().unwrap() on None panics.
ExecuteNoSender ==
    /\ PoolExists
    /\ sender = "None"
    /\ execResult' = "panic_no_sender"
    /\ UNCHANGED <<mainPc, channel, sender, workers, drain, joining, queue,
                   lock, poisoned, tpc, cur, nextJob, panicJobs, deqOrder,
                   runCount, completed, counter,
                   takeCount>>

\* send(job) returns Err (no receiver is left) and unwrap panics.
ExecuteSendError ==
    /\ PoolExists
    /\ sender = "Some"
    /\ SendResult = "Err"
    /\ execResult' = "panic_send_error"
    /\ UNCHANGED <<mainPc, channel, sender, workers, drain, joining, queue,
                   lock, poisoned, tpc, cur, nextJob, panicJobs, deqOrder,
                   runCount, completed, counter,
                   takeCount>>

\* send(job) returns Ok: the job is in the channel.  `p`: the job's body
\* panics.
ExecuteOk(p) ==
    /\ PoolExists
    /\ sender = "Some"
    /\ SendResult = "Ok"
    /\ nextJob <= MaxJobs
    /\ queue' = Enqueue(queue, nextJob)
    /\ panicJobs' = IF p THEN panicJobs \cup {nextJob} ELSE panicJobs
    /\ nextJob' = nextJob + 1
    /\ execResult' = "ok"
    /\ UNCHANGED <<mainPc, channel, sender, workers, drain, joining, lock,
                   poisoned, tpc, cur, deqOrder, runCount, completed,
                   counter,
                   takeCount>>

Execute(p) == ExecuteNoSender \/ ExecuteSendError \/ ExecuteOk(p)

\* ------------------------------------------------------------- Drop for ThreadPool
\* Mutant of TakeSender: the sender is left in the field, so the channel
\* stays open while the workers are joined.
TakeSenderLeaves(s) == s

\* self.sender.take() leaves None in the field; the Sender taken out is
\* dropped at once.
TakeSender(s) == "None"

\* Mutant of JoinReturns: the owner does not wait for the thread to end.
JoinReturnsEarly(h) == tpc[h] # "unspawned"

\* JoinHandle::join blocks until the thread has ended.
JoinReturns(h) == Finished(h)

\* Mutant of JoinResult: the Err of a panicked thread is discarded.
JoinResultIgnored(h) == "Ok"

\* Its result: Err when the thread panicked.
JoinResult(h) == IF tpc[h] = "panicked" THEN "Err" ELSE "Ok"

\* Mutant of DrainAll: the workers are yielded last to first.
DrainAllReversed(ws) == [i \in 1 .. Len(ws) |-> ws[Len(ws) + 1 - i]]

\* self.workers.drain(..): yields the workers of the Vec first to last.
DrainAll(ws) == ws

\* drop(self.sender.take()) and the creation of self.workers.drain(..),
\* which empties the Vec and keeps its elements in the iterator.
DropBegin ==
    /\ mainPc = "running"
    /\ sender' = TakeSender(sender)
    /\ drain' = DrainAll(workers)
    /\ workers' = <<>>
    /\ mainPc' = "drain"
    /\ UNCHANGED <<channel, joining, queue, lock, poisoned, tpc, cur,
                   nextJob, panicJobs, deqOrder, runCount, completed,
                   counter, execResult,
                   takeCount>>

\* The next worker of the drain: worker.take_thread(), then join() starts.
\* take_thread on an empty slot panics and the rest of the drain is dropped.
DropTakeThread ==
    /\ mainPc = "drain"
    /\ drain # <<>>
    /\ LET r == TakeThread(Head(drain)) IN
         IF r.ok
         THEN /\ joining' = r.handle
              /\ takeCount' = [takeCount EXCEPT ![r.handle] = @ + 1]
              /\ drain' = Tail(drain)
              /\ mainPc' = "join"
         ELSE /\ joining' = joining
              /\ takeCount' = takeCount
              /\ drain' = <<>>
              /\ mainPc' = "drop_panicked"
    /\ UNCHANGED <<channel, sender, workers, queue, lock, poisoned, tpc,
                   cur, nextJob, panicJobs, deqOrder, runCount, completed,
                   counter, execResult>>

\* join() returns once the thread has ended; unwrap panics on the Err of
\* a panicked thread, which drops the rest of the drain unjoined.
DropJoin ==
    /\ mainPc = "join"
    /\ JoinReturns(joining)
    /\ joining' = NoThread
    /\ IF JoinResult(joining) = "Ok"
       THEN /\ mainPc' = "drain"
            /\ drain' = drain
       ELSE /\ mainPc' = "drop_panicked"
            /\ drain' = <<>>
    /\ UNCHANGED <<channel, sender, workers, queue, lock, poisoned, tpc,
                   cur, nextJob, panicJobs, deqOrder, runCount, completed,
                   counter, execResult,
                   takeCount>>

\* The drain is exhausted: the for loop ends and drop returns.
DropReturn ==
    /\ mainPc = "drain"
    /\ drain = <<>>
    /\ mainPc' = "dropped"
    /\ UNCHANGED <<channel, sender, workers, drain, joining, queue, lock,
                   poisoned, tpc, cur, nextJob, panicJobs, deqOrder,
                   runCount, completed, counter, execResult,
                   takeCount>>

\* ------------------------------------------------------------- the worker thread
\* Mutant of GuardDropped: the guard lives on while the job runs.
GuardKept(t) == t

\* What the receiver mutex looks like after the guard a lock() call of
\* thread `t` obtained has been dropped at the end of the let statement.
GuardDropped(t) == NoOne

\* Unwinding of thread `t`: a guard it still holds is dropped while
\* panicking, which releases and poisons the mutex.
UnwindLock(t) == IF lock = t THEN NoOne ELSE lock
UnwindPoison(t) == IF lock = t THEN TRUE ELSE poisoned

\* Mutant of LockFree: lock() never waits for the holder.
LockFreeAlways == TRUE

\* Mutex::lock returns only while no other thread holds the mutex.
LockFree == lock = NoOne

\* receiver.lock().unwrap(): blocks while another thread holds the mutex;
\* a poisoned mutex makes unwrap panic.
AcquireLock(t) ==
    /\ tpc[t] = "lock"
    /\ LockFree
    /\ IF poisoned
       THEN /\ tpc' = [tpc EXCEPT ![t] = "panicked"]
            /\ lock' = lock
            /\ queue' = QueueAfterThreadEnd(t)
       ELSE /\ tpc' = [tpc EXCEPT ![t] = "recv"]
            /\ lock' = t
            /\ queue' = queue
    /\ UNCHANGED <<mainPc, channel, sender, workers, drain, joining,
                   poisoned, cur, nextJob, panicJobs, deqOrder, runCount,
                   completed, counter, execResult,
                   takeCount>>

\* recv() returns Ok(job): the guard is dropped, then job() is called.
RecvOk(t) ==
    /\ tpc[t] = "recv"
    /\ lock = t
    /\ RecvResult(queue, sender) = "Ok"
    /\ queue' = Dequeued(queue)
    /\ deqOrder' = Append(deqOrder, Head(queue))
    /\ lock' = GuardDropped(t)
    /\ cur' = [cur EXCEPT ![t] = Head(queue)]
    /\ runCount' = [runCount EXCEPT ![Head(queue)] = @ + 1]
    /\ tpc' = [tpc EXCEPT ![t] = "exec"]
    /\ UNCHANGED <<mainPc, channel, sender, workers, drain, joining,
                   poisoned, nextJob, panicJobs, completed, counter,
                   execResult,
                   takeCount>>

\* recv() returns Err: the guard is dropped, the loop breaks and the
\* thread ends normally.
RecvErr(t) ==
    /\ tpc[t] = "recv"
    /\ lock = t
    /\ RecvResult(queue, sender) = "Err"
    /\ lock' = GuardDropped(t)
    /\ tpc' = [tpc EXCEPT ![t] = "exited"]
    /\ queue' = QueueAfterThreadEnd(t)
    /\ UNCHANGED <<mainPc, channel, sender, workers, drain, joining,
                   poisoned, cur, nextJob, panicJobs, deqOrder, runCount,
                   completed, counter, execResult,
                   takeCount>>

\* job() returns: the loop goes round.
JobReturns(t) ==
    /\ tpc[t] = "exec"
    /\ cur[t] \notin panicJobs
    /\ completed' = completed \cup {cur[t]}
    /\ counter' = counter + 1
    /\ cur' = [cur EXCEPT ![t] = NoJob]
    /\ tpc' = [tpc EXCEPT ![t] = "lock"]
    /\ UNCHANGED <<mainPc, channel, sender, workers, drain, joining, queue,
                   lock, poisoned, nextJob, panicJobs, deqOrder, runCount,
                   execResult,
                   takeCount>>

\* job() panics: the thread unwinds and ends abnormally.
JobPanics(t) ==
    /\ tpc[t] = "exec"
    /\ cur[t] \in panicJobs
    /\ tpc' = [tpc EXCEPT ![t] = "panicked"]
    /\ cur' = [cur EXCEPT ![t] = NoJob]
    /\ lock' = UnwindLock(t)
    /\ poisoned' = UnwindPoison(t)
    /\ queue' = QueueAfterThreadEnd(t)
    /\ UNCHANGED <<mainPc, channel, sender, workers, drain, joining,
                   nextJob, panicJobs, deqOrder, runCount, completed,
                   counter, execResult,
                   takeCount>>

WorkerStep(t) ==
    \/ AcquireLock(t)
    \/ RecvOk(t)
    \/ RecvErr(t)
    \/ JobReturns(t)
    \/ JobPanics(t)

\* ------------------------------------------------------------- direct use of Worker
\* The locals of a direct caller that panicked are dropped: its tx, and
\* its Arc of the receiver.
QueueAfterCallerEnd == IF \E u \in Slots : Alive(u) THEN queue ELSE <<>>

\* mpsc::channel() and Worker::new(id, Arc::clone(&receiver)).
DirectNew(id) ==
    /\ mainPc = "init"
    /\ channel' = TRUE
    /\ sender' = "Some"
    /\ workers' = <<WorkerNew(id, 0)>>
    /\ tpc' = Spawned(<<WorkerNew(id, 0)>>)
    /\ mainPc' = "direct"
    /\ UNCHANGED <<drain, joining, queue, lock, poisoned, cur, nextJob,
                   panicJobs, deqOrder, runCount, completed, counter,
                   execResult,
                   takeCount>>

\* tx.send(job).unwrap()
DirectSend(p) ==
    /\ mainPc = "direct"
    /\ sender = "Some"
    /\ SendResult = "Ok"
    /\ nextJob <= MaxJobs
    /\ queue' = Enqueue(queue, nextJob)
    /\ panicJobs' = IF p THEN panicJobs \cup {nextJob} ELSE panicJobs
    /\ nextJob' = nextJob + 1
    /\ execResult' = "ok"
    /\ UNCHANGED <<mainPc, channel, sender, workers, drain, joining, lock,
                   poisoned, tpc, cur, deqOrder, runCount, completed,
                   counter,
                   takeCount>>

\* drop(tx)
DirectDropTx ==
    /\ mainPc = "direct"
    /\ sender = "Some"
    /\ sender' = "None"
    /\ UNCHANGED <<mainPc, channel, workers, drain, joining, queue, lock,
                   poisoned, tpc, cur, nextJob, panicJobs, deqOrder,
                   runCount, completed, counter, execResult,
                   takeCount>>

\* worker.take_thread()
DirectTakeThread ==
    /\ mainPc = "direct"
    /\ LET r == TakeThread(workers[1]) IN
         IF r.ok
         THEN /\ joining' = r.handle
              /\ takeCount' = [takeCount EXCEPT ![r.handle] = @ + 1]
              /\ workers' = <<r.worker>>
              /\ mainPc' = mainPc
              /\ sender' = sender
              /\ queue' = queue
         ELSE /\ joining' = joining
              /\ takeCount' = takeCount
              /\ workers' = workers
              /\ mainPc' = "direct_take_panicked"
              /\ sender' = "None"
              /\ queue' = QueueAfterCallerEnd
    /\ UNCHANGED <<channel, drain, lock, poisoned, tpc, cur, nextJob,
                   panicJobs, deqOrder, runCount, completed, counter,
                   execResult>>

\* handle.join().unwrap()
DirectJoin ==
    /\ mainPc = "direct"
    /\ joining # NoThread
    /\ JoinReturns(joining)
    /\ joining' = NoThread
    /\ IF JoinResult(joining) = "Ok"
       THEN /\ mainPc' = mainPc
            /\ sender' = sender
            /\ queue' = queue
       ELSE /\ mainPc' = "direct_join_panicked"
            /\ sender' = "None"
            /\ queue' = QueueAfterCallerEnd
    /\ UNCHANGED <<channel, workers, drain, lock, poisoned, tpc, cur,
                   nextJob, panicJobs, deqOrder, runCount, completed,
                   counter, execResult,
                   takeCount>>

\* ------------------------------------------------------------- specification
Next ==
    \/ \E size \in 0 .. MaxSize : NewPanics(size)
    \/ \E size \in 0 .. MaxSize : NewOk(size)
    \/ ExecuteNoSender
    \/ ExecuteSendError
    \/ \E p \in BOOLEAN : ExecuteOk(p)
    \/ DropBegin
    \/ DropTakeThread
    \/ DropJoin
    \/ DropReturn
    \/ \E t \in Slots : AcquireLock(t)
    \/ \E t \in Slots : RecvOk(t)
    \/ \E t \in Slots : RecvErr(t)
    \/ \E t \in Slots : JobReturns(t)
    \/ \E t \in Slots : JobPanics(t)
    \/ \E id \in 0 .. MaxDirectId : DirectNew(id)
    \/ \E p \in BOOLEAN : DirectSend(p)
    \/ DirectDropTx
    \/ DirectTakeThread
    \/ DirectJoin

Spec == Init /\ [][Next]_vars

\* Every worker thread is an OS thread that keeps being scheduled, and so
\* is the thread running drop: a step of theirs that stays possible is
\* eventually taken.  Nothing obliges the owner to submit or to drop.
Fairness ==
    /\ \A t \in Slots : WF_vars(WorkerStep(t))
    /\ WF_vars(DropTakeThread \/ DropJoin \/ DropReturn)

FairSpec == Spec /\ Fairness

\* ------------------------------------------------------------- properties
\* The jobs accepted so far: ids 1 .. nextJob - 1.
Accepted == 1 .. (nextJob - 1)

\* Number of times job j was returned by recv.
DequeueCount(j) == Cardinality({i \in DOMAIN deqOrder : deqOrder[i] = j})

\* The job ids held in the channel's buffer.
Queued == {queue[i] : i \in DOMAIN queue}

C2_EachJobRunAtMostOnce ==
    \A j \in JobIds :
        /\ DequeueCount(j) <= 1
        /\ runCount[j] <= 1
        /\ runCount[j] = DequeueCount(j)
        /\ Cardinality({t \in Slots : cur[t] = j}) <= 1
        /\ ~(j \in Queued /\ DequeueCount(j) > 0)
        /\ (j \in completed => runCount[j] = 1)

\* C2 witness: every job has been dequeued, and two workers are running
\* two of them at the same time.
C2_Witness ==
    /\ Len(deqOrder) = MaxJobs
    /\ \E t, u \in Slots : t # u /\ cur[t] # NoJob /\ cur[u] # NoJob


\* C3: ThreadPool::new(0) always panics and creates no channel and no
\* worker thread; ThreadPool::new(k), k >= 1, always succeeds and returns
\* a pool of exactly k workers, each holding the handle of a thread that
\* has been spawned, with the sender held.
C3_NewZeroPanicsElseKWorkers ==
    /\ [](mainPc = "init" =>
            /\ ENABLED NewPanics(0)
            /\ ~ENABLED NewOk(0)
            /\ \A k \in 1 .. MaxSize :
                   ENABLED NewOk(k) /\ ~ENABLED NewPanics(k))
    /\ [][\A size \in 0 .. MaxSize :
            New(size) =>
              IF size = 0
              THEN /\ mainPc' = "new_panicked"
                   /\ channel' = FALSE
                   /\ workers' = <<>>
                   /\ sender' = "None"
                   /\ \A t \in Slots : tpc'[t] = "unspawned"
              ELSE /\ mainPc' = "running"
                   /\ channel' = TRUE
                   /\ sender' = "Some"
                   /\ Len(workers') = size
                   /\ \A i \in 1 .. size :
                         /\ workers'[i].thread \in Slots
                         /\ tpc'[workers'[i].thread] = "lock"
                   /\ \A i, k \in 1 .. size :
                         i # k => workers'[i].thread # workers'[k].thread
                   /\ Cardinality({t \in Slots : tpc'[t] # "unspawned"}) = size
          ]_vars

\* C3 witness: new(MaxSize) has returned a pool of MaxSize workers whose
\* threads all run, with the sender held and nothing submitted yet.
C3_Witness ==
    /\ mainPc = "running"
    /\ Len(workers) = MaxSize
    /\ sender = "Some"
    /\ nextJob = 1
    /\ \A t \in Slots : Alive(t)


\* C4: under fair scheduling, once drop has relinquished the sender of a
\* pool none of whose accepted jobs panics, drop eventually returns with
\* every worker thread ended, whatever is queued and wherever the workers
\* are (running a job, blocked in recv, waiting for the lock).
C4_ShutdownTerminates ==
    (mainPc = "drain" /\ panicJobs = {})
        ~> (mainPc = "dropped" /\ \A t \in Slots : ~Alive(t))

\* C4 witness: drop has returned on a pool of MaxSize workers that was
\* shut down with no job ever submitted.
C4_Witness ==
    /\ mainPc = "dropped"
    /\ nextJob = 1
    /\ \A t \in Slots : tpc[t] = "exited"


\* C5: in every state in which drop has returned, no worker thread is
\* still running, the sender slot is empty, the pool holds no worker and
\* no handle any more, and no job can be enqueued.
C5_AfterDropNoThreadNoSender ==
    mainPc = "dropped" =>
        /\ \A t \in Slots : ~Alive(t)
        /\ sender = "None"
        /\ workers = <<>>
        /\ drain = <<>>
        /\ joining = NoThread
        /\ \A p \in BOOLEAN : ~ENABLED ExecuteOk(p)

\* C5 witness: drop has returned on a pool of MaxSize workers that ran
\* exactly two jobs.
C5_Witness ==
    /\ mainPc = "dropped"
    /\ completed = {1, 2}
    /\ nextJob = 3
    /\ \A t \in Slots : tpc[t] = "exited"

\* C6 (as claimed): a call of execute made once the sender has been
\* relinquished reports a recoverable QueueClosed error to its caller and
\* enqueues nothing.
C6_ExecuteAfterShutdownReturnsQueueClosed ==
    [][(PoolExists /\ sender = "None" /\ execResult' # execResult) =>
         (execResult' = "queue_closed" /\ queue' = queue)]_vars

\* C7: a job that panics ends its worker thread abnormally, the join of
\* a panicked worker makes drop panic, and drop never returns normally
\* while some worker thread has panicked.
C7_WorkerPanicFailsDrop ==
    /\ [](mainPc = "dropped" => \A t \in Slots : tpc[t] # "panicked")
    /\ [][\A t \in Slots :
            (tpc[t] = "exec" /\ cur[t] \in panicJobs /\ tpc'[t] # tpc[t])
                => tpc'[t] = "panicked"]_vars
    /\ [][(mainPc = "join" /\ tpc[joining] = "panicked" /\ mainPc' # mainPc)
            => mainPc' = "drop_panicked"]_vars

\* C7 witness: drop has panicked at the join of a worker killed by a
\* panicking job.
C7_Witness ==
    /\ mainPc = "drop_panicked"
    /\ panicJobs # {}
    /\ \E t \in Slots : tpc[t] = "panicked" /\ takeCount[t] = 1

\* The workers the owner still holds, in the Vec or in the drain.
HeldWorkers ==
    {workers[i] : i \in DOMAIN workers} \cup {drain[i] : i \in DOMAIN drain}

\* C8: take_thread returns a worker's handle at most once: the first call
\* returns it and leaves the slot empty, a call on an empty slot panics
\* and returns nothing.
C8_ThreadTakenAtMostOnce ==
    /\ [](\A t \in Slots :
            /\ takeCount[t] <= 1
            /\ (takeCount[t] = 1 => \A w \in HeldWorkers : w.thread # t))
    /\ [][DirectTakeThread =>
            IF workers[1].thread # NoThread
            THEN /\ joining' = workers[1].thread
                 /\ workers'[1].thread = NoThread
                 /\ GetId(workers'[1]) = GetId(workers[1])
                 /\ mainPc' = "direct"
            ELSE /\ mainPc' = "direct_take_panicked"
                 /\ joining' = joining
                 /\ takeCount' = takeCount
                 /\ workers' = workers]_vars

\* C8 witness: a second take_thread on the same worker has panicked after
\* the first one returned the handle.
C8_Witness ==
    /\ mainPc = "direct_take_panicked"
    /\ takeCount[0] = 1
    /\ workers[1].thread = NoThread

\* C9: no worker holds the receiver lock while it runs a job: the holder
\* of the lock is always a worker inside recv.
C9_LockNotHeldAcrossJob ==
    \A t \in Slots :
        /\ (tpc[t] = "exec" => lock # t)
        /\ (lock = t => tpc[t] = "recv")

\* C9 witness: one worker runs a job while another holds the lock in recv.
C9_Witness ==
    \E t, u \in Slots :
        /\ t # u
        /\ tpc[t] = "exec"
        /\ cur[t] # NoJob
        /\ tpc[u] = "recv"
        /\ lock = u

\* C10: a worker running a job never keeps an idle worker from the next
\* queued job: while a job is queued, an idle worker inside recv can
\* dequeue it, and an idle worker waiting for the lock can either take
\* the lock or is waiting for an idle worker that can dequeue.
C10_ExecutingWorkerBlocksNoOne ==
    \A t, u \in Slots :
        (t # u /\ tpc[t] = "exec" /\ queue # <<>>) =>
            /\ (tpc[u] = "recv" => ENABLED RecvOk(u))
            /\ (tpc[u] = "lock" =>
                   \/ ENABLED AcquireLock(u)
                   \/ \E v \in Slots \ {t} :
                         tpc[v] = "recv" /\ lock = v /\ ENABLED RecvOk(v))

\* C10 witness: two workers run jobs at the same time while a third job
\* is queued and a third worker is idle.
C10_Witness ==
    \E t, u, v \in Slots :
        /\ t # u /\ t # v /\ u # v
        /\ tpc[t] = "exec"
        /\ tpc[u] = "exec"
        /\ tpc[v] \in {"lock", "recv"}
        /\ queue # <<>>

\* C11: jobs are dequeued in submission order: the ids recv has returned
\* are increasing, every job still queued was submitted after every job
\* already dequeued, and the buffer itself is in submission order.
C11_DequeuedInSubmissionOrder ==
    /\ \A i, k \in DOMAIN deqOrder : i < k => deqOrder[i] < deqOrder[k]
    /\ \A i \in DOMAIN deqOrder : \A k \in DOMAIN queue :
          deqOrder[i] < queue[k]
    /\ \A i, k \in DOMAIN queue : i < k => queue[i] < queue[k]

\* C11 witness: the jobs were dequeued in the order 1, 2, 3, and job 2
\* has completed while job 1 is still running.
C11_Witness ==
    /\ Len(deqOrder) = MaxJobs
    /\ 2 \in completed
    /\ 1 \notin completed
    /\ \E t \in Slots : cur[t] = 1

\* C12: while the pool accepts submissions and some worker thread is
\* alive, execute is possible at once and cannot fail, whatever the queue
\* depth and the workers' positions; the call appends exactly its one job
\* at the back of the queue and touches no worker.  (nextJob <= MaxJobs
\* is the model's cap on the number of jobs.)
C12_ExecuteNeverBlocks ==
    /\ []((mainPc = "running" /\ sender = "Some" /\ nextJob <= MaxJobs
            /\ \E t \in Slots : Alive(t)) =>
              /\ \A p \in BOOLEAN : ENABLED ExecuteOk(p)
              /\ ~ENABLED ExecuteSendError
              /\ ~ENABLED ExecuteNoSender)
    /\ [][\A p \in BOOLEAN :
            ExecuteOk(p) =>
              /\ queue' = Append(queue, nextJob)
              /\ Len(queue') = Len(queue) + 1
              /\ execResult' = "ok"
              /\ tpc' = tpc /\ lock' = lock /\ cur' = cur
              /\ sender' = sender /\ mainPc' = mainPc]_vars

\* C12 witness: execute has just succeeded on a queue that already held a
\* job, while every worker of the pool was running a job.
C12_Witness ==
    /\ mainPc = "running"
    /\ execResult = "ok"
    /\ Len(queue) >= 2
    /\ queue[Len(queue)] = nextJob - 1
    /\ \E t \in Slots : Alive(t)
    /\ \A t \in Slots : Alive(t) => tpc[t] = "exec"

NumSpawned == Cardinality({t \in Slots : tpc[t] # "unspawned"})

\* C14: a worker's id is fixed at construction.  The workers of a pool
\* of size k carry the ids 0 .. k-1 in construction order, before and
\* during shutdown (the drain holds the last workers, ids ending at k-1);
\* a worker built directly by Worker::new(id, ..) reports that id; and no
\* step (job execution, take_thread, join, shutdown) changes the id that
\* get_id reports for a worker the owner still holds.
C14_WorkerIdsFixed ==
    /\ [](mainPc = "running" =>
            /\ Len(workers) = NumSpawned
            /\ \A i \in DOMAIN workers : GetId(workers[i]) = i - 1)
    /\ [](mainPc \in {"drain", "join"} =>
            \A i \in DOMAIN drain :
                GetId(drain[i]) = NumSpawned - Len(drain) + i - 1)
    /\ [][\A id \in 0 .. MaxDirectId :
            DirectNew(id) =>
                (Len(workers') = 1 /\ GetId(workers'[1]) = id)]_vars
    /\ [][mainPc = "direct" =>
            (Len(workers') = 1 /\ GetId(workers'[1]) = GetId(workers[1]))
         ]_vars
    /\ [][mainPc = "running" =>
            \/ workers' = workers
            \/ (workers' = <<>> /\ Len(drain') = Len(workers)
                 /\ \A i \in DOMAIN workers :
                       GetId(drain'[i]) = GetId(workers[i]))]_vars

\* C14 witness: during the shutdown of a pool of MaxSize workers that ran
\* a job, with all handles but the last taken, the last worker still
\* reports id MaxSize - 1.
C14_Witness ==
    /\ mainPc = "join"
    /\ completed # {}
    /\ NumSpawned = MaxSize
    /\ Len(drain) = 1
    /\ GetId(drain[1]) = MaxSize - 1

\* The worker states of the specification: Idle is a thread about to lock
\* the receiver or inside recv, Executing one inside job(), Terminated
\* one that left its loop on the closed channel.
Idle(t) == tpc[t] \in {"lock", "recv"}
Executing(t) == tpc[t] = "exec"
Terminated(t) == tpc[t] = "exited"

\* The moves of thread t the claimed state machine allows: the spawn,
\* Idle -> Idle (lock obtained), Idle -> Executing (job dequeued),
\* Executing -> Idle (job returned), Idle -> Terminated (closed channel,
\* with every sender dropped and the queue empty).
ClaimedMove(t) ==
    \/ tpc[t] = "unspawned" /\ tpc'[t] = "lock"
    \/ tpc[t] = "lock" /\ tpc'[t] = "recv"
    \/ tpc[t] = "recv" /\ tpc'[t] = "exec" /\ queue # <<>>
    \/ tpc[t] = "exec" /\ tpc'[t] = "lock" /\ cur[t] \in completed'
    \/ tpc[t] = "recv" /\ tpc'[t] = "exited"
         /\ sender = "None" /\ queue = <<>>

\* C15 (as claimed): a worker moves only Idle -> Executing -> Idle and
\* Idle -> Terminated, the latter only with every sender dropped and the
\* queue empty; Terminated is terminal.
C15_WorkerStateMachineAsClaimed ==
    [][\A t \in Slots : tpc'[t] # tpc[t] => ClaimedMove(t)]_vars

\* C15 (amended): as claimed, with one more move: a job that panics takes
\* its worker from Executing to an abnormal end, which is terminal too.
\* No step of the owner (submission, shutdown, join) changes the position
\* or the job of any worker, so an executing worker is never cancelled.
C15_WorkerStateMachine ==
    /\ [][\A t \in Slots :
            tpc'[t] # tpc[t] =>
                \/ ClaimedMove(t)
                \/ (tpc[t] = "exec" /\ tpc'[t] = "panicked"
                     /\ cur[t] \in panicJobs)]_vars
    /\ [][(mainPc # "init" /\ (mainPc' # mainPc \/ sender' # sender
                                \/ joining' # joining))
            => (tpc' = tpc /\ cur' = cur)]_vars

\* C15 witness: a single worker used directly has run the job that was
\* still queued when the sender was dropped and has then terminated.
C15_Witness ==
    /\ mainPc = "direct"
    /\ sender = "None"
    /\ Terminated(0)
    /\ completed = {1}
    /\ queue = <<>>

\* C16: at most one worker is inside recv on the shared receiver, and it
\* is the holder of the lock; every other worker that is neither running
\* a job nor ended is waiting for the lock.
C16_OneWorkerInRecv ==
    /\ Cardinality({t \in Slots : tpc[t] = "recv"}) <= 1
    /\ \A t \in Slots : (tpc[t] = "recv" <=> lock = t)
    /\ lock \in Slots \cup {NoOne}
    /\ \A t \in Slots :
          (Alive(t) /\ ~Executing(t) /\ lock # t) => tpc[t] = "lock"

\* C16 witness: in a pool of MaxSize workers one worker is blocked in recv
\* holding the lock and all the others wait for the lock.
C16_Witness ==
    \E t \in Slots :
        /\ lock = t
        /\ tpc[t] = "recv"
        /\ queue = <<>>
        /\ \A u \in Slots \ {t} : tpc[u] = "lock"

\* The owner is the owner of a ThreadPool (not a direct user of Worker).
InPool == mainPc \in {"running", "drain", "join", "dropped", "drop_panicked"}

\* C17: shutdown follows a fixed order.  No handle is taken before the
\* sender has been relinquished; handles are taken in construction order
\* (worker 0, 1, ...), the handle of a worker only after the thread of
\* every earlier worker has exited; no handle is taken twice, and when
\* drop returns the handle of every worker has been taken exactly once.
C17_ShutdownOrder ==
    InPool =>
        /\ \A t \in Slots : takeCount[t] <= 1
        /\ \A t \in Slots : takeCount[t] = 1 => sender = "None"
        /\ \A t, u \in Slots :
              (t < u /\ takeCount[u] = 1) =>
                  (takeCount[t] = 1 /\ tpc[t] = "exited" /\ joining # t)
        /\ (mainPc = "join" =>
              /\ joining \in Slots
              /\ takeCount[joining] = 1
              /\ \A u \in Slots : u > joining => takeCount[u] = 0
              /\ Len(drain) = NumSpawned - joining - 1)
        /\ (mainPc = "running" => \A t \in Slots : takeCount[t] = 0)
        /\ (mainPc = "dropped" =>
              \A t \in Slots : tpc[t] # "unspawned" => takeCount[t] = 1)

\* C17 witness: drop is joining the last worker of a pool of MaxSize
\* workers, which is still running a job, after all earlier workers
\* exited.
C17_Witness ==
    /\ mainPc = "join"
    /\ joining = MaxSize - 1
    /\ tpc[joining] = "exec"
    /\ \A t \in Slots : t < joining => (tpc[t] = "exited" /\ takeCount[t] = 1)

\* C18: shutdown is entered once and is irreversible.  The pool's sender
\* slot is held exactly while the pool is running; it is emptied by the
\* step that starts shutdown and by no other; once empty it stays empty,
\* the pool never runs again, and the queue never grows.
C18_ShutdownIrreversible ==
    /\ [](InPool => (sender = "Some" <=> mainPc = "running"))
    /\ [][(channel /\ sender = "None") =>
            (sender' = "None" /\ Len(queue') <= Len(queue))]_vars
    /\ [][(InPool /\ sender = "Some" /\ sender' = "None") =>
            (mainPc = "running" /\ mainPc' = "drain")]_vars
    /\ [][(mainPc = "running" /\ mainPc' # mainPc) =>
            (mainPc' = "drain" /\ sender = "Some" /\ sender' = "None")]_vars
    /\ [][(mainPc \in {"drain", "join", "dropped", "drop_panicked"}) =>
            (mainPc' \in {"drain", "join", "dropped", "drop_panicked"})]_vars

\* C18 witness: shutdown has begun with jobs still queued, and an execute
\* attempted since then has enqueued nothing.
C18_Witness ==
    /\ mainPc = "drain"
    /\ sender = "None"
    /\ Len(queue) = 2
    /\ execResult = "panic_no_sender"

\* Every worker thread has ended (or none was spawned).
AllDead == \A t \in Slots : ~Alive(t)

\* C19: under fair scheduling of the worker threads (every job body
\* ends), every job in the queue is eventually dequeued and started by
\* some worker, unless every worker thread has died; no shutdown is
\* needed for that.  Stated in two parts: a job leaves the queue only by
\* being started by a worker, or when no worker is left alive; and a
\* queue that holds jobs is eventually emptied, or all workers die.
C19_QueuedJobEventuallyStarted ==
    /\ [][\A j \in JobIds :
            (j \in Queued /\ j \notin Queued') =>
                \/ (runCount[j] = 0 /\ runCount'[j] = 1
                     /\ \E t \in Slots :
                           Alive(t) /\ cur'[t] = j /\ tpc'[t] = "exec")
                \/ AllDead']_vars
    /\ ((queue # <<>>) ~> (queue = <<>> \/ AllDead))

\* C19 witness: every job has been run to completion by a pool that was
\* never shut down, the last one after waiting in the queue.
C19_Witness ==
    /\ mainPc = "running"
    /\ sender = "Some"
    /\ completed = JobIds
    /\ \A j \in JobIds : runCount[j] = 1
    /\ NumSpawned = 1

\* C20: a job that panics on one worker blocks no other worker.  The
\* mutex is never poisoned and never held by a dead thread, so lock()
\* never fails; a worker that left its loop normally did so on an empty
\* queue; and once the sender is dropped every surviving worker
\* eventually ends, whatever panicked before.
C20_PanicBlocksNoOne ==
    /\ [](~poisoned)
    /\ [](\A t \in Slots : ~Alive(t) => lock # t)
    /\ [][\A t \in Slots :
            (tpc[t] = "lock" /\ tpc'[t] # "lock") => tpc'[t] = "recv"]_vars
    /\ []((sender = "None" /\ \E t \in Slots : tpc[t] = "exited")
            => queue = <<>>)
    /\ ((channel /\ sender = "None") ~> AllDead)

\* C20 witness: job 1 panicked and killed its worker, another worker has
\* since run job 2 to completion, observed the closed channel and exited.
C20_Witness ==
    /\ 1 \in panicJobs
    /\ runCount[1] = 1
    /\ 2 \in completed
    /\ \E t, u \in Slots :
          /\ tpc[t] = "panicked"
          /\ tpc[u] = "exited"
    /\ AllDead
    /\ queue = <<>>

\* C21: once every worker thread of the pool has died, each killed by a
\* panicking job, no receiver is left: the buffer is empty, execute
\* cannot accept a job and fails at send (or, after drop took the sender,
\* at the unwrap of the empty sender), and no step adds a job to the
\* queue or accepts one.
C21_NoJobQueuedWhenAllWorkersDead ==
    /\ []((PoolExists /\ AllDead) =>
              /\ queue = <<>>
              /\ \A p \in BOOLEAN : ~ENABLED ExecuteOk(p)
              /\ (sender = "Some" => ENABLED ExecuteSendError))
    /\ []((mainPc = "running" /\ AllDead) =>
              \A t \in Slots : tpc[t] # "unspawned" => tpc[t] = "panicked")
    /\ [][(InPool /\ AllDead) =>
              /\ queue' = <<>>
              /\ nextJob' = nextJob
              /\ (execResult' # execResult =>
                     execResult' \in {"panic_send_error", "panic_no_sender"})]_vars

\* C21 witness: both workers of a pool of two were killed by the panicking
\* jobs 1 and 2, and the execute that followed failed at send.
C21_Witness ==
    /\ mainPc = "running"
    /\ sender = "Some"
    /\ NumSpawned = 2
    /\ \A t \in Slots : tpc[t] # "unspawned" => tpc[t] = "panicked"
    /\ runCount[1] = 1 /\ runCount[2] = 1
    /\ {1, 2} \subseteq panicJobs
    /\ execResult = "panic_send_error"
    /\ queue = <<>>
    /\ nextJob = 3

\* Shutdown has failed at the worker of slot `k`: its thread panicked and
\* was joined, every worker before it ended normally and was joined, and
\* no worker after it had its handle taken.
FailedAt(k) ==
    /\ tpc[k] = "panicked"
    /\ takeCount[k] = 1
    /\ \A t \in Slots :
          /\ t < k => (tpc[t] = "exited" /\ takeCount[t] = 1)
          /\ t > k => takeCount[t] = 0

\* The workers a failed shutdown left unjoined.
Unjoined == {t \in Slots : tpc[t] # "unspawned" /\ takeCount[t] = 0}

\* C22 (as claimed): after a failed shutdown the workers it left unjoined
\* drain the queue and terminate: once they all have ended, every
\* accepted job has been dequeued.
C22_UnjoinedWorkersDrainQueue ==
    (mainPc = "drop_panicked" /\ Unjoined # {} /\ AllDead)
        => \A j \in Accepted : runCount[j] = 1

\* C22 (amended): a shutdown that fails does so at the first panicked
\* worker in construction order, with the sender already dropped, the
\* workers before it ended and joined and the workers after it not
\* joined; each of those still eventually terminates; one of them that
\* ends without panicking does so on a drained queue, and accepted jobs
\* stay unrun only when every worker of the pool has panicked.
C22_ShutdownFailsAtFirstPanicked ==
    /\ [](mainPc = "drop_panicked" =>
              /\ sender = "None"
              /\ drain = <<>> /\ workers = <<>> /\ joining = NoThread
              /\ \E k \in Slots : FailedAt(k))
    /\ [][(mainPc = "drop_panicked") =>
              (mainPc' = "drop_panicked" /\ takeCount' = takeCount)]_vars
    /\ [][\A t \in Slots :
            (mainPc = "drop_panicked" /\ tpc[t] = "recv" /\ tpc'[t] = "exited")
                => (queue = <<>> /\ \A j \in Accepted : runCount[j] = 1)]_vars
    /\ []((mainPc = "drop_panicked" /\ AllDead
             /\ \E j \in Accepted : runCount[j] = 0)
            => \A t \in Slots : tpc[t] \in {"unspawned", "panicked"})
    /\ ((mainPc = "drop_panicked") ~> AllDead)

\* C22 witness: in a pool of three, worker 0 ended and was joined, the
\* join of worker 1 failed on its panic, and worker 2, never joined, is
\* still running a job.
C22_Witness ==
    /\ mainPc = "drop_panicked"
    /\ sender = "None"
    /\ FailedAt(1)
    /\ takeCount[2] = 0
    /\ tpc[2] = "exec"
    /\ completed # {}

====
